---------------------------- MODULE Spec2Model ----------------------------
(***************************************************************************)
(* Model of the review cache of reputation_horizon:                        *)
(*   src/apps/backend/src/services/cache.py          (CacheService)        *)
(*   src/apps/backend/src/services/review_service.py (ReviewService)       *)
(*   src/apps/backend/src/models.py                  (ReviewStats, ...)    *)
(*                                                                         *)
(* The two DuckDB tables are modelled as sets of rows.  Time is a counter  *)
(* of ticks, TicksPerHour ticks to the hour; CURRENT_TIMESTAMP and         *)
(* datetime.now() both read it.  A review carries the fields the cache and *)
(* the statistics act on (id, source, rating, date); author, title,        *)
(* content, helpful_count and app_version are copied verbatim by the code  *)
(* and are left out.                                                       *)
(***************************************************************************)
EXTENDS Integers, Sequences, FiniteSets, TLC

VARIABLES
    conn,               \* CacheService.conn: TRUE = connected, FALSE = None
    cache_metadata,     \* table cache_metadata: a set of rows, cache_key unique
    reviews,            \* table reviews: a set of rows, id unique
    now,                \* the wall clock, in ticks
    replace_keeps_cached_at, \* build property of INSERT OR REPLACE (see InsertOrReplace)
    last,               \* log of the last CacheService call: its inputs and what it saw and returned
    txn,                \* the open transaction of the connection (SpecConc), or NoTxn
    co,                 \* the coroutines of the event loop (SpecConc): position and locals
    running,            \* the coroutine that holds the event loop's thread (SpecConc), or 0
    req,                \* log of the last ReviewService.get_reviews request (SpecService)
    api_key,            \* WextractorService.api_key is set (settings.wextractor_api_key)
    generation          \* history: for each cache_key, the reviews its last committed cache_reviews was given

vars == <<conn, cache_metadata, reviews, now, replace_keeps_cached_at, last, txn, co,
          running, req, api_key, generation>>

----------------------------------------------------------------------------
(* Bounds of the model *)

\* ticks to the hour
TicksPerHour == 2

\* the clock stops at MaxTime ticks
MaxTime == 3

\* the page budgets a caller passes are 1 .. MaxBudget (the endpoint accepts
\* 1 .. 50)
MaxBudget == 2

----------------------------------------------------------------------------
(* Values *)

None == "None"

Sources == {"google", "apple", "trustpilot"}

\* source_filter values of the requests: no filter, or one platform
SourceFilters == {None, "google"}

\* hours values of the requests
HoursValues == {24}

\* cache_duration_hours values passed to cache_reviews
CacheDurations == {1, 2}

\* the reviews the upstream platforms can deliver; "a" is an id two
\* platforms both use
AllReviews ==
    { [id |-> "a", source |-> "google",     rating |-> 5, date |-> 3],
      [id |-> "b", source |-> "apple",      rating |-> 3, date |-> 2],
      [id |-> "a", source |-> "trustpilot", rating |-> 1, date |-> 1] }

\* models.py: the fields a ReviewStats must be given (all are Field(...))
ReviewStatsFields ==
    {"total_reviews", "average_rating", "rating_distribution",
     "google_reviews", "apple_reviews", "trustpilot_reviews"}

ValidationError == "ValidationError"

\* pydantic construction of ReviewStats(**kwargs): a missing required
\* field raises ValidationError
ReviewStats(kwargs) ==
    IF ReviewStatsFields \subseteq DOMAIN kwargs THEN kwargs ELSE ValidationError

----------------------------------------------------------------------------
(* Sequences of reviews *)

RECURSIVE SetToSeqByDateDesc(_)
\* sorted(key = date, reverse = True) of a set of reviews with distinct dates
SetToSeqByDateDesc(S) ==
    IF S = {} THEN <<>>
    ELSE LET r == CHOOSE x \in S : \A y \in S : y.date <= x.date
         IN  <<r>> \o SetToSeqByDateDesc(S \ {r})

Range(s) == { s[i] : i \in DOMAIN s }

RECURSIVE SumRatings(_)
SumRatings(s) == IF s = <<>> THEN 0 ELSE Head(s).rating + SumRatings(Tail(s))

\* round(total / n, 2), in hundredths.  No tie at the third decimal exists
\* for n <= 7, so rounding half up equals Python's round here.
Round2(total, n) == (2 * 100 * total + n) \div (2 * n)

\* the statistics of the mutant that leaves trustpilot_count at its default
CalculateStatsNoTrustpilot(revs, google_count, apple_count, trustpilot_count) ==
    [ total_reviews |-> Len(revs),
      average_rating |-> IF revs = <<>> THEN 0 ELSE Round2(SumRatings(revs), Len(revs)),
      rating_distribution |->
          [k \in 1..5 |-> Cardinality({i \in DOMAIN revs : revs[i].rating = k})],
      google_reviews |-> google_count,
      apple_reviews |-> apple_count,
      trustpilot_reviews |-> 0 ]

\* WextractorService._calculate_stats
_calculate_stats(revs, google_count, apple_count, trustpilot_count) ==
    IF revs = <<>>
    THEN [ total_reviews |-> 0, average_rating |-> 0,
           rating_distribution |-> [k \in 1..5 |-> 0],
           google_reviews |-> 0, apple_reviews |-> 0, trustpilot_reviews |-> 0 ]
    ELSE [ total_reviews |-> Len(revs),
           average_rating |-> Round2(SumRatings(revs), Len(revs)),
           rating_distribution |->
               [k \in 1..5 |-> Cardinality({i \in DOMAIN revs : revs[i].rating = k})],
           google_reviews |-> google_count,
           apple_reviews |-> apple_count,
           trustpilot_reviews |-> trustpilot_count ]

CountSource(revs, s) == Cardinality({i \in DOMAIN revs : revs[i].source = s})

\* the dictionary WextractorService.get_reviews returns for the reviews
\* that passed its window filter
FreshResponse(S, hours, at) ==
    LET filtered_reviews == SetToSeqByDateDesc(S)
    IN  [ reviews |-> filtered_reviews,
          stats |-> _calculate_stats(filtered_reviews,
                                     CountSource(filtered_reviews, "google"),
                                     CountSource(filtered_reviews, "apple"),
                                     CountSource(filtered_reviews, "trustpilot")),
          fetched_at |-> at,
          time_range_hours |-> hours ]

\* ReviewService.get_reviews, lines 63-81: the source filter applied to the
\* fresh response; only three fields of the stats are recomputed
ApplySourceFilter(fresh, source_filter) ==
    IF source_filter = None THEN fresh
    ELSE LET filtered_reviews ==
                 SelectSeq(fresh.reviews, LAMBDA r : r.source = source_filter)
         IN  [ fresh EXCEPT
                 !.reviews = filtered_reviews,
                 !.stats = [ fresh.stats EXCEPT
                     !.google_reviews = CountSource(filtered_reviews, "google"),
                     !.apple_reviews = CountSource(filtered_reviews, "apple"),
                     !.total_reviews = Len(filtered_reviews) ] ]

\* the sets of reviews one aggregation can end with: any of the google and
\* apple reviews, or the reviews of all three platforms
FetchedSets ==
    { S \in SUBSET AllReviews : \A r \in S : r.source # "trustpilot" } \cup {AllReviews}

\* the ReviewsResponse objects cache_reviews can be handed for a request shape
Responses(hours, source_filter, at) ==
    { ApplySourceFilter(FreshResponse(S, hours, at), source_filter) :
        S \in FetchedSets }

----------------------------------------------------------------------------
(* CacheService: the SQL statements and the methods built from them *)

\* Python truthiness of an optional string ("if source_filter:")
Truthy(x) == x \notin {None, ""}

\* _generate_cache_key with the time of the call (its parity) worked into
\* the key
GenerateCacheKeyStamped(hours, source_filter) ==
    <<"reviews_", hours, "h">> \o
        (IF Truthy(source_filter) THEN <<"_", source_filter>> ELSE <<>>) \o
        (IF now % 2 = 1 THEN <<"_", "odd">> ELSE <<"_", "even">>)

\* CacheService._generate_cache_key: f"reviews_{hours}h" plus "_" and the
\* filter when one is given; the string is kept as its sequence of pieces
_generate_cache_key(hours, source_filter) ==
    <<"reviews_", hours, "h">> \o
        (IF Truthy(source_filter) THEN <<"_", source_filter>> ELSE <<>>)

\* the keys of the request shapes
Keys == { _generate_cache_key(h, f) : h \in HoursValues, f \in SourceFilters }

\* a cache_key argument that is None or "": no piece at all
NoKey == <<>>

\* a value written to and read back from a REAL (32-bit float) column, in
\* hundredths: only the multiples of 0.25 come back as the number written,
\* the others as a nearby number that is no rounded average (here h + 1000)
FromRealColumn(h) == IF h % 25 = 0 THEN h ELSE h + 1000

\* _is_cache_valid with the comparison slipped to >=
IsCacheValidAtExpiry(meta, cache_key, t) ==
    \E m \in meta : m.cache_key = cache_key /\ m.expires_at >= t

\* CacheService._is_cache_valid:
\* SELECT expires_at FROM cache_metadata
\*  WHERE cache_key = ? AND expires_at > CURRENT_TIMESTAMP
_is_cache_valid(meta, cache_key, t) ==
    \E m \in meta : m.cache_key = cache_key /\ m.expires_at > t

\* SELECT ... FROM cache_metadata WHERE cache_key = ?   (fetchone)
SelectMetadata(meta, cache_key) == { m \in meta : m.cache_key = cache_key }

\* SELECT ... FROM reviews WHERE cached_at >= (SELECT cached_at FROM
\* cache_metadata WHERE cache_key = ?) [AND source = '<filter>']
SelectReviews(meta, rows, cache_key, source_filter) ==
    { r \in rows :
        /\ \E m \in meta : m.cache_key = cache_key /\ r.cached_at >= m.cached_at
        /\ (Truthy(source_filter) => r.source = source_filter) }

\* a row of table reviews as an AppReview
RowToReview(r) == [id |-> r.id, source |-> r.source, rating |-> r.rating, date |-> r.date]

RECURSIVE OrderByDateDesc(_)
\* ORDER BY date DESC over rows; rows of equal date in any one order
OrderByDateDesc(S) ==
    IF S = {} THEN <<>>
    ELSE LET r == CHOOSE x \in S : \A y \in S : y.date <= x.date
         IN  <<r>> \o OrderByDateDesc(S \ {r})

\* what get_cached_reviews returns without an entry: None
Miss(stage, validated, data) ==
    [ result |-> None, stage |-> stage, validated |-> validated, reviews_data |-> data ]

\* CacheService.get_cached_reviews, lines 185-226: from the rows read to the
\* return.  stage names the return statement taken.
LookupFinish(metadata, reviews_data, hours) ==
    IF reviews_data = <<>> THEN Miss("no_reviews", TRUE, <<>>)
    ELSE
    LET revs == [i \in DOMAIN reviews_data |-> RowToReview(reviews_data[i])]
        stats == ReviewStats(
            [ total_reviews |-> metadata.total_count,
              average_rating |-> metadata.avg_rating,
              rating_distribution |-> metadata.rating_distribution,
              google_reviews |-> metadata.google_count,
              apple_reviews |-> metadata.apple_count ])
    IN
    IF stats = ValidationError THEN Miss("error", TRUE, reviews_data)
    ELSE [ result |-> [ reviews |-> revs, stats |-> stats,
                        fetched_at |-> metadata.fetched_at,
                        time_range_hours |-> hours ],
           stage |-> "hit", validated |-> TRUE, reviews_data |-> reviews_data ]

\* CacheService.get_cached_reviews from "try:" on, its three SELECTs run
\* one after the other on the same tables
LookupConnected(meta, rows, t, hours, source_filter) ==
    LET cache_key == _generate_cache_key(hours, source_filter)
    IN  IF ~_is_cache_valid(meta, cache_key, t)
        THEN Miss("invalid", FALSE, <<>>)
        ELSE
        LET found == SelectMetadata(meta, cache_key) IN
        IF found = {} THEN Miss("no_metadata", TRUE, <<>>)
        ELSE LookupFinish(CHOOSE m \in found : TRUE,
                          OrderByDateDesc(SelectReviews(meta, rows, cache_key,
                                                        source_filter)),
                          hours)

\* CacheService.get_cached_reviews
get_cached_reviews(c, meta, rows, t, hours, source_filter) ==
    IF ~c
    THEN [ result |-> None, stage |-> "no_conn", validated |-> FALSE,
           reviews_data |-> <<>> ]
    ELSE LookupConnected(meta, rows, t, hours, source_filter)

\* DELETE FROM cache_metadata WHERE cache_key = ?
DeleteMetadata(meta, cache_key) == { m \in meta : m.cache_key # cache_key }

\* INSERT INTO cache_metadata (...) VALUES (...); cached_at takes its
\* default CURRENT_TIMESTAMP, the start of the transaction
InsertMetadata(meta, cache_key, hours, response, cached_at, expires_at) ==
    meta \cup
    { [ cache_key |-> cache_key,
        hours |-> hours,
        google_count |-> response.stats.google_reviews,
        apple_count |-> response.stats.apple_reviews,
        total_count |-> response.stats.total_reviews,
        avg_rating |-> FromRealColumn(response.stats.average_rating),
        rating_distribution |-> response.stats.rating_distribution,
        fetched_at |-> response.fetched_at,
        cached_at |-> cached_at,
        expires_at |-> expires_at ] }

\* INSERT OR REPLACE INTO reviews (id, ..., app_version) VALUES (...): the
\* primary key is id alone.  cached_at is not in the column list: on a
\* conflict DuckDB either leaves the old row's cached_at (an upsert of the
\* listed columns) or writes the default anew, depending on the build.
InsertOrReplace(rows, review, cached_at, keeps) ==
    LET old == { r \in rows : r.id = review.id }
        stamp == IF old # {} /\ keeps
                 THEN (CHOOSE r \in old : TRUE).cached_at
                 ELSE cached_at
    IN  (rows \ old) \cup
        { [ id |-> review.id, source |-> review.source, rating |-> review.rating,
            date |-> review.date, cached_at |-> stamp ] }

RECURSIVE InsertReviews(_, _, _, _)
\* for review in reviews_response.reviews: INSERT OR REPLACE ...
InsertReviews(rows, revs, cached_at, keeps) ==
    IF revs = <<>> THEN rows
    ELSE InsertReviews(InsertOrReplace(rows, Head(revs), cached_at, keeps),
                       Tail(revs), cached_at, keeps)

\* expires_at = datetime.now() + timedelta(hours = cache_duration_hours)
ExpiresAt(t, cache_duration_hours) == t + cache_duration_hours * TicksPerHour

\* CacheService.cache_reviews, the committed transaction: the two tables
\* after it
cache_reviews(meta, rows, t, response, hours, source_filter, cache_duration_hours, keeps) ==
    LET cache_key == _generate_cache_key(hours, source_filter)
    IN  [ meta |-> InsertMetadata(DeleteMetadata(meta, cache_key), cache_key, hours,
                                  response, t, ExpiresAt(t, cache_duration_hours)),
          rows |-> InsertReviews(rows, response.reviews, t, keeps) ]

\* the expiry sweep with the comparison slipped to <
DeleteExpiredStrict(meta, t) == { m \in meta : ~(m.expires_at < t) }

\* DELETE FROM cache_metadata WHERE expires_at <= CURRENT_TIMESTAMP
DeleteExpired(meta, t) == { m \in meta : ~(m.expires_at <= t) }

\* the orphan cleanup without its hour of grace and with the comparison
\* slipped to >
DeleteOrphansStrict(meta, rows) ==
    LET joined == { r.id : r \in { x \in rows :
                        \E c \in meta : x.cached_at > c.cached_at } }
    IN  { r \in rows : r.id \in joined }

\* DELETE FROM reviews WHERE id NOT IN (SELECT DISTINCT r.id FROM reviews r
\*   JOIN cache_metadata c ON r.cached_at >= c.cached_at - INTERVAL '1 hour')
DeleteOrphans(meta, rows) ==
    LET joined == { r.id : r \in { x \in rows :
                        \E c \in meta : x.cached_at >= c.cached_at - TicksPerHour } }
    IN  { r \in rows : r.id \in joined }

\* CacheService._cleanup_expired_cache with a connection
_cleanup_expired_cache(meta, rows, t) ==
    LET kept == DeleteExpired(meta, t)
    IN  [ meta |-> kept, rows |-> DeleteOrphans(kept, rows) ]

\* CacheService.get_cache_stats with a connection: every aggregate is taken
\* over cache_metadata
get_cache_stats(meta, t) ==
    [ cache_entries |-> Cardinality({ m.cache_key : m \in meta }),
      total_reviews |-> Cardinality(meta),
      valid_caches |-> Cardinality({ m \in meta : m.expires_at > t }) ]

\* clear_cache whose DELETE by key takes the review rows along
ClearCacheWithRows(meta, rows, cache_key) ==
    IF cache_key # NoKey
    THEN [ meta |-> { m \in meta : m.cache_key # cache_key }, rows |-> {} ]
    ELSE [ meta |-> {}, rows |-> {} ]

\* clear_cache whose DELETE without a key removes one entry per call
ClearCacheOneEntry(meta, rows, cache_key) ==
    IF cache_key # NoKey
    THEN [ meta |-> { m \in meta : m.cache_key # cache_key }, rows |-> rows ]
    ELSE [ meta |-> IF meta = {} THEN {} ELSE meta \ {CHOOSE m \in meta : TRUE},
           rows |-> {} ]

\* CacheService.clear_cache with a connection
clear_cache(meta, rows, cache_key) ==
    IF cache_key # NoKey
    THEN [ meta |-> DeleteMetadata(meta, cache_key), rows |-> rows ]
    ELSE [ meta |-> {}, rows |-> {} ]

----------------------------------------------------------------------------
(* The state after construction *)

NoTxn == [open |-> FALSE]

Idle == [pc |-> "idle"]

Coroutines == {1, 2}

\* what CacheService.__init__ can meet: the directory of the database file
\* can be made and the database opened; the directory can be made but
\* duckdb.connect or _create_tables raises; the directory cannot be made
StorageConditions == {"ok", "connect_fails", "mkdir_fails"}

\* CacheService.__init__: the mkdir of line 22 stands before the try and its
\* exception leaves the constructor; an exception of duckdb.connect or
\* _create_tables is caught and leaves conn None
CacheServiceInit(storage) ==
    IF storage = "mkdir_fails"
    THEN [ raised |-> "OSError", conn |-> FALSE ]
    ELSE [ raised |-> None, conn |-> storage = "ok" ]

\* the state after construction under one of the storage conditions: the
\* tables start empty
InitWith(storages, api_keys) ==
    /\ \E storage \in storages :
          /\ conn = CacheServiceInit(storage).conn
          /\ last = [ op |-> "init", storage |-> storage,
                      raised |-> CacheServiceInit(storage).raised ]
    /\ api_key \in api_keys
    /\ cache_metadata = {}
    /\ reviews = {}
    /\ now = 0
    /\ replace_keeps_cached_at \in BOOLEAN
    /\ txn = NoTxn
    /\ co = [c \in Coroutines |-> Idle]
    /\ running = 0
    /\ req = [op |-> "init"]
    /\ generation = [k \in Keys |-> {}]

\* there is a CacheService: its constructor returned
Constructed == ~(last.op = "init" /\ last.raised # None)

\* a CacheService on its own
InitCache == InitWith(StorageConditions, {TRUE})

\* the history variable after the table cache_metadata became meta: a key
\* without a row has no generation
Forget(gen, meta) ==
    [k \in Keys |-> IF \E m \in meta : m.cache_key = k THEN gen[k] ELSE {}]

----------------------------------------------------------------------------
(* SpecCache: the methods of one CacheService, called one after another *)

\* time passes
Advance ==
    /\ now < MaxTime
    /\ now' = now + 1
    /\ UNCHANGED <<conn, cache_metadata, reviews, replace_keeps_cached_at, last,
                   txn, co, running, req, api_key, generation>>

\* get_cached_reviews(hours, source_filter)
GetCachedReviews ==
    \E hours \in HoursValues, source_filter \in SourceFilters :
        /\ Constructed
        /\ last' = [ op |-> "lookup", hours |-> hours, source_filter |-> source_filter,
                     cache_key |-> _generate_cache_key(hours, source_filter),
                     at |-> now,
                     out |-> get_cached_reviews(conn, cache_metadata, reviews, now,
                                                hours, source_filter) ]
        /\ UNCHANGED <<conn, cache_metadata, reviews, now, replace_keeps_cached_at,
                       txn, co, running, req, api_key, generation>>

\* cache_reviews(reviews_response, hours, source_filter, cache_duration_hours);
\* the transaction starts at an instant later than every earlier one
CacheReviews ==
    \E hours \in HoursValues, source_filter \in SourceFilters,
       cache_duration_hours \in CacheDurations :
      \E response \in Responses(hours, source_filter, now) :
        LET cache_key == _generate_cache_key(hours, source_filter)
            after == cache_reviews(cache_metadata, reviews, now + 1, response, hours,
                                   source_filter, cache_duration_hours,
                                   replace_keeps_cached_at)
        IN  /\ Constructed
            /\ now < MaxTime
            /\ now' = now + 1
            /\ cache_metadata' = IF conn THEN after.meta ELSE cache_metadata
            /\ reviews' = IF conn THEN after.rows ELSE reviews
            /\ generation' = IF conn
                             THEN [generation EXCEPT ![cache_key] = Range(response.reviews)]
                             ELSE generation
            /\ last' = [ op |-> "store", hours |-> hours,
                         source_filter |-> source_filter, cache_key |-> cache_key,
                         at |-> now', response |-> response,
                         cache_duration_hours |-> cache_duration_hours,
                         replaced |-> \E m \in cache_metadata : m.cache_key = cache_key ]
            /\ UNCHANGED <<conn, replace_keeps_cached_at, txn, co, running, req, api_key>>

\* the statements of the transaction of cache_reviews, lines 259-306
StoreStatements == {"delete_metadata", "insert_metadata", "insert_review", "commit"}

\* cache_reviews(...) with a connection, one statement of its transaction
\* raising: the handler of lines 310-312 rolls the transaction back and the
\* exception leaves the method
CacheReviewsFails ==
    \E hours \in HoursValues, source_filter \in SourceFilters,
       statement \in StoreStatements :
        /\ Constructed
        /\ conn
        /\ last' = [ op |-> "store_failed", hours |-> hours,
                     source_filter |-> source_filter,
                     cache_key |-> _generate_cache_key(hours, source_filter),
                     at |-> now, statement |-> statement ]
        /\ UNCHANGED <<conn, cache_metadata, reviews, now, replace_keeps_cached_at,
                       txn, co, running, req, api_key, generation>>

\* _cleanup_expired_cache(), the request log left to the caller
CleanupCall ==
    LET after == IF conn THEN _cleanup_expired_cache(cache_metadata, reviews, now)
                 ELSE [meta |-> cache_metadata, rows |-> reviews]
    IN  /\ Constructed
        /\ cache_metadata' = after.meta
        /\ reviews' = after.rows
        /\ generation' = Forget(generation, after.meta)
        /\ last' = [ op |-> "sweep", at |-> now,
                     expired |-> { m.cache_key : m \in cache_metadata \ after.meta },
                     orphans |-> { r.id : r \in reviews \ after.rows } ]
        /\ UNCHANGED <<conn, now, replace_keeps_cached_at, txn, co, running, api_key>>

\* _cleanup_expired_cache()
CleanupExpiredCache == CleanupCall /\ UNCHANGED req

\* get_cache_stats(): {} without a connection; the request log left to the
\* caller
StatsCall ==
    /\ Constructed
    /\ last' = [ op |-> "stats", at |-> now,
                 out |-> IF conn THEN get_cache_stats(cache_metadata, now)
                         ELSE [none \in {} |-> 0] ]
    /\ UNCHANGED <<conn, cache_metadata, reviews, now, replace_keeps_cached_at,
                   txn, co, running, api_key, generation>>

\* get_cache_stats()
GetCacheStats == StatsCall /\ UNCHANGED req

\* clear_cache(cache_key), the request log left to the caller
ClearCall ==
    \E cache_key \in Keys \cup {NoKey} :
        LET after == IF conn THEN clear_cache(cache_metadata, reviews, cache_key)
                     ELSE [meta |-> cache_metadata, rows |-> reviews]
        IN  /\ Constructed
            /\ cache_metadata' = after.meta
            /\ reviews' = after.rows
            /\ generation' = Forget(generation, after.meta)
            /\ last' = [ op |-> "clear", cache_key |-> cache_key, at |-> now,
                         removed |-> { m.cache_key : m \in cache_metadata \ after.meta },
                         again |-> last.op = "clear" /\ last.cache_key = cache_key,
                         removed_before |->
                             IF last.op = "clear" /\ last.cache_key = cache_key
                             THEN last.removed ELSE {} ]
            /\ UNCHANGED <<conn, now, replace_keeps_cached_at, txn, co, running, api_key>>

\* clear_cache(cache_key)
ClearCache == ClearCall /\ UNCHANGED req

NextCache ==
    \/ Advance
    \/ GetCachedReviews
    \/ CacheReviews
    \/ CacheReviewsFails
    \/ CleanupExpiredCache
    \/ GetCacheStats
    \/ ClearCache

SpecCache == InitCache /\ [][NextCache]_vars

----------------------------------------------------------------------------
(* SpecService: the requests ReviewService serves *)

\* ReviewService.__init__: default_cache_duration_hours
default_cache_duration_hours == 24

\* max_pages values of the requests
MaxPagesValues == {1, 20}

\* the parameters of WextractorService.get_reviews, besides self
WextractorGetReviewsParams == {"hours", "max_trustpilot_pages"}

\* the keyword arguments of the call at review_service.py line 61
WextractorCallKeywords == {"hours", "max_pages"}

\* Python's binding of a call by keywords: a keyword that names no parameter
\* raises TypeError before the callee runs
BindCall(params, keywords) == IF keywords \subseteq params THEN "ok" ELSE "TypeError"

\* the page requests of one aggregation: every one of the three fetchers
\* asks for its first page at least
MinUpstreamPages == Cardinality(Sources)

\* the steps one get_reviews call goes through, in their order: the cache
\* check of lines 48-57, the body of WextractorService.get_reviews entered
\* at line 61, the cache_reviews call of lines 84-95, and how the call ends
RequestTrace(cache_check, hit, bound, has_key, cached) ==
    (IF cache_check THEN <<"CacheCheck">> ELSE <<>>) \o
    (IF hit THEN <<"return">>
     ELSE IF bound # "ok" THEN <<"raise">>
     ELSE <<"Aggregate">> \o
          (IF ~has_key THEN <<"raise">>
           ELSE (IF cached THEN <<"CacheWrite">> ELSE <<>>) \o <<"return">>))

\* ReviewService.get_reviews(hours, source_filter, cached, force_refresh,
\* max_pages), S being what the upstream platforms hold in the window and
\* cache_fault telling whether a statement of cache_reviews would raise (the
\* transaction is rolled back and the exception caught at lines 93-95).  The
\* call runs to its return or raise in one piece: its only await is the
\* call of WextractorService.get_reviews.
\* a cache test that looks at force_refresh alone
ShouldCheckCacheUnlessForced(cached, force_refresh) == ~force_refresh

\* line 48: "if cached and not force_refresh", the test that guards the lookup
ShouldCheckCache(cached, force_refresh) == cached /\ ~force_refresh

GetReviews ==
    \E hours \in HoursValues, source_filter \in SourceFilters,
       cached \in BOOLEAN, force_refresh \in BOOLEAN, max_pages \in MaxPagesValues,
       S \in FetchedSets, cache_fault \in BOOLEAN :
      LET cache_key == _generate_cache_key(hours, source_filter)
          cache_check == ShouldCheckCache(cached, force_refresh)
          looked == get_cached_reviews(conn, cache_metadata, reviews, now,
                                       hours, source_filter)
          hit == cache_check /\ looked.stage = "hit"
          bound == BindCall(WextractorGetReviewsParams, WextractorCallKeywords)
          raised == IF hit THEN None
                    ELSE IF bound # "ok" THEN bound
                    ELSE IF ~api_key THEN "ValueError"
                    ELSE None
          fresh == ~hit /\ raised = None
          response == ApplySourceFilter(FreshResponse(S, hours, now), source_filter)
          write == fresh /\ cached /\ conn /\ ~cache_fault
          after == cache_reviews(cache_metadata, reviews, now + 1, response, hours,
                                 source_filter, default_cache_duration_hours,
                                 replace_keeps_cached_at)
      IN  /\ Constructed
          /\ write => now < MaxTime
          /\ req' = [ op |-> "get", hours |-> hours, source_filter |-> source_filter,
                      cached |-> cached, force_refresh |-> force_refresh,
                      max_pages |-> max_pages, cache_key |-> cache_key, at |-> now,
                      cache_fault |-> cache_fault,
                      cache_checked |-> cache_check,
                      aggregated |-> fresh,
                      cache_written |-> write,
                      upstream_pages |-> IF fresh THEN MinUpstreamPages ELSE 0,
                      \* the fetchers the aggregation called: lines 52-54 of
                      \* wextractor.py call all three, whatever source_filter is
                      invoked |-> IF fresh THEN Sources ELSE {},
                      trace |-> RequestTrace(cache_check, hit, bound, api_key, cached),
                      outcome |-> IF hit THEN "hit"
                                  ELSE IF fresh THEN "fresh" ELSE raised ]
          /\ last' = IF cache_check
                     THEN [ op |-> "lookup", hours |-> hours,
                            source_filter |-> source_filter, cache_key |-> cache_key,
                            at |-> now, out |-> looked ]
                     ELSE last
          /\ cache_metadata' = IF write THEN after.meta ELSE cache_metadata
          /\ reviews' = IF write THEN after.rows ELSE reviews
          /\ generation' = IF write
                           THEN [generation EXCEPT ![cache_key] = Range(response.reviews)]
                           ELSE generation
          /\ now' = IF write THEN now + 1 ELSE now
          /\ UNCHANGED <<conn, replace_keeps_cached_at, txn, co, running, api_key>>

\* ReviewService.clear_cache, cleanup_expired_cache and get_cache_stats hand
\* over to the CacheService; the request log records the administration
AdminClearCache == ClearCall /\ req' = [op |-> "clear"]

AdminCleanup == CleanupCall /\ req' = [op |-> "sweep"]

AdminStats == StatsCall /\ req' = [op |-> "stats"]

InitService == InitWith({"ok", "connect_fails"}, BOOLEAN)

NextService ==
    \/ Advance
    \/ GetReviews
    \/ AdminClearCache
    \/ AdminCleanup
    \/ AdminStats

SpecService == InitService /\ [][NextService]_vars

----------------------------------------------------------------------------
(* SpecConc: requests served concurrently by the one CacheService of the   *)
(* process, its methods taken statement by statement.  The endpoints are   *)
(* coroutines of one event loop and the methods of CacheService contain no *)
(* await: a coroutine that entered a method keeps the thread until the     *)
(* method returns.                                                         *)

\* coroutine c may take its next statement: the thread is free, or c holds it
CanRun(c) == running \in {0, c}

\* cache_reviews: "cache_duration_hours: int = 1", the value of a call
\* that passes none
cache_duration_hours_default == 1

\* time passes between the calls of the methods: no statement of a method
\* after its first reads the clock
AdvanceConc == running = 0 /\ Advance

\* a method is entered: the log of the last call is that of a call under way
Entered == [op |-> "entered"]

\* positions inside cache_reviews between BEGIN TRANSACTION and COMMIT
InStore == {"delete_metadata", "insert_metadata", "insert_reviews"}

\* the tables as last committed
Committed ==
    IF txn.open THEN txn.saved ELSE [meta |-> cache_metadata, rows |-> reviews]

\* what the three SELECTs of get_cached_reviews read when they all run on
\* the tables meta and rows
Observe(meta, rows, t, hours, source_filter) ==
    LET cache_key == _generate_cache_key(hours, source_filter)
        valid == _is_cache_valid(meta, cache_key, t)
        found == IF valid THEN SelectMetadata(meta, cache_key) ELSE {}
    IN  [ validated |-> valid,
          found |-> found,
          reviews_data |-> IF found = {} THEN <<>>
                           ELSE OrderByDateDesc(SelectReviews(meta, rows, cache_key,
                                                              source_filter)) ]

\* a request reaches the service and will call get_cached_reviews
ArriveLookup(c) ==
    \E hours \in HoursValues, source_filter \in SourceFilters :
        LET cache_key == _generate_cache_key(hours, source_filter) IN
        /\ co[c] = Idle
        /\ co' = [co EXCEPT ![c] =
                    [ pc |-> "lookup", hours |-> hours, source_filter |-> source_filter,
                      cache_key |-> cache_key,
                      overlapped |-> \E d \in Coroutines \ {c} :
                                        /\ co[d].pc \in InStore
                                        /\ co[d].cache_key = cache_key ]]
        /\ UNCHANGED <<conn, cache_metadata, reviews, now, replace_keeps_cached_at,
                       last, txn, running, req, api_key, generation>>

\* a request reaches the service and will call cache_reviews
ArriveStore(c) ==
    \E hours \in HoursValues, source_filter \in SourceFilters :
        /\ co[c] = Idle
        /\ co' = [co EXCEPT ![c] =
                    [ pc |-> "store", hours |-> hours, source_filter |-> source_filter,
                      cache_key |-> _generate_cache_key(hours, source_filter) ]]
        /\ UNCHANGED <<conn, cache_metadata, reviews, now, replace_keeps_cached_at,
                       last, txn, running, req, api_key, generation>>

\* get_cached_reviews returns in coroutine c having read obs
LookupReturns(c, obs, out) ==
    /\ last' = [ op |-> "lookup", hours |-> co[c].hours,
                 source_filter |-> co[c].source_filter,
                 cache_key |-> co[c].cache_key, at |-> obs.at, out |-> out,
                 obs |-> [ validated |-> obs.validated, found |-> obs.found,
                           reviews_data |-> obs.reviews_data ],
                 whole |-> { obs.before,
                             Observe(Committed.meta, Committed.rows, obs.at,
                                     co[c].hours, co[c].source_filter) },
                 generations |-> { obs.generation_before,
                                   generation[co[c].cache_key] },
                 overlapped |-> co[c].overlapped ]
    /\ co' = [co EXCEPT ![c] = Idle]
    /\ running' = 0

\* get_cached_reviews, lines 143-145: self._is_cache_valid(cache_key)
LookupValid(c) ==
    LET valid == _is_cache_valid(cache_metadata, co[c].cache_key, now)
        before == Observe(Committed.meta, Committed.rows, now,
                          co[c].hours, co[c].source_filter)
    IN  /\ co[c].pc = "lookup"
        /\ CanRun(c)
        /\ IF valid
           THEN /\ co' = [co EXCEPT ![c] =
                            [ pc |-> "select_metadata", hours |-> co[c].hours,
                              source_filter |-> co[c].source_filter,
                              cache_key |-> co[c].cache_key,
                              overlapped |-> co[c].overlapped,
                              at |-> now, before |-> before,
                              generation_before |-> generation[co[c].cache_key] ]]
                /\ running' = c
                /\ last' = Entered
           ELSE LookupReturns(c, [ at |-> now, before |-> before,
                                   generation_before |-> generation[co[c].cache_key],
                                   validated |-> FALSE,
                                   found |-> {}, reviews_data |-> <<>> ],
                              Miss("invalid", FALSE, <<>>))
        /\ UNCHANGED <<conn, cache_metadata, reviews, now, replace_keeps_cached_at,
                       txn, req, api_key, generation>>

\* get_cached_reviews, lines 154-164: the SELECT on cache_metadata
LookupMetadata(c) ==
    LET found == SelectMetadata(cache_metadata, co[c].cache_key) IN
    /\ co[c].pc = "select_metadata"
    /\ CanRun(c)
    /\ IF found # {}
       THEN /\ co' = [co EXCEPT ![c] =
                        [ pc |-> "select_reviews", hours |-> co[c].hours,
                          source_filter |-> co[c].source_filter,
                          cache_key |-> co[c].cache_key,
                          overlapped |-> co[c].overlapped,
                          at |-> co[c].at, before |-> co[c].before,
                          generation_before |-> co[c].generation_before,
                          found |-> found ]]
            /\ running' = c
            /\ UNCHANGED last
       ELSE LookupReturns(c, [ at |-> co[c].at, before |-> co[c].before,
                               generation_before |-> co[c].generation_before,
                               validated |-> TRUE, found |-> {},
                               reviews_data |-> <<>> ],
                          Miss("no_metadata", TRUE, <<>>))
    /\ UNCHANGED <<conn, cache_metadata, reviews, now, replace_keeps_cached_at,
                   txn, req, api_key, generation>>

\* get_cached_reviews, lines 168-226: the SELECT on reviews, then the return
LookupReviews(c) ==
    LET reviews_data == OrderByDateDesc(SelectReviews(cache_metadata, reviews,
                                            co[c].cache_key, co[c].source_filter))
    IN  /\ co[c].pc = "select_reviews"
        /\ CanRun(c)
        /\ LookupReturns(c, [ at |-> co[c].at, before |-> co[c].before,
                              generation_before |-> co[c].generation_before,
                              validated |-> TRUE, found |-> co[c].found,
                              reviews_data |-> reviews_data ],
                         LookupFinish(CHOOSE m \in co[c].found : TRUE,
                                      reviews_data, co[c].hours))
        /\ UNCHANGED <<conn, cache_metadata, reviews, now, replace_keeps_cached_at,
                       txn, req, api_key, generation>>

\* coroutine c at position pc of cache_reviews, its locals as they are
AtStore(c, pc) == [co EXCEPT ![c] = [co[c] EXCEPT !.pc = pc]]

\* cache_reviews, lines 252-259, entered with the fresh response of the
\* request: expires_at is computed and the transaction begun, at an instant
\* later than every earlier transaction's; the connection has no
\* transaction open when a method is entered
StoreBegin(c) ==
    /\ co[c].pc = "store"
    /\ CanRun(c)
    /\ ~txn.open
    /\ now < MaxTime
    /\ \E cache_duration_hours \in {cache_duration_hours_default} :
         \E response \in Responses(co[c].hours, co[c].source_filter, now) :
            co' = [co EXCEPT ![c] =
                    [ pc |-> "delete_metadata", hours |-> co[c].hours,
                      source_filter |-> co[c].source_filter,
                      cache_key |-> co[c].cache_key, response |-> response,
                      cache_duration_hours |-> cache_duration_hours,
                      replaced |-> \E m \in cache_metadata :
                                      m.cache_key = co[c].cache_key,
                      todo |-> response.reviews ]]
    /\ now' = now + 1
    /\ txn' = [ open |-> TRUE, at |-> now',
                saved |-> [meta |-> cache_metadata, rows |-> reviews] ]
    /\ running' = c
    /\ last' = Entered
    /\ UNCHANGED <<conn, cache_metadata, reviews, replace_keeps_cached_at,
                   req, api_key, generation>>

\* cache_reviews, line 263: DELETE FROM cache_metadata WHERE cache_key = ?
StoreDeleteMetadata(c) ==
    /\ co[c].pc = "delete_metadata"
    /\ CanRun(c)
    /\ cache_metadata' = DeleteMetadata(cache_metadata, co[c].cache_key)
    /\ co' = AtStore(c, "insert_metadata")
    /\ running' = c
    /\ UNCHANGED <<conn, reviews, now, replace_keeps_cached_at, last, txn, req,
                   api_key, generation>>

\* cache_reviews, lines 266-283: INSERT INTO cache_metadata
StoreInsertMetadata(c) ==
    /\ co[c].pc = "insert_metadata"
    /\ CanRun(c)
    /\ cache_metadata' = InsertMetadata(cache_metadata, co[c].cache_key, co[c].hours,
                             co[c].response, txn.at,
                             ExpiresAt(txn.at, co[c].cache_duration_hours))
    /\ co' = AtStore(c, "insert_reviews")
    /\ running' = c
    /\ UNCHANGED <<conn, reviews, now, replace_keeps_cached_at, last, txn, req,
                   api_key, generation>>

\* cache_reviews, lines 292-303: one turn of the loop over the reviews
StoreInsertReview(c) ==
    /\ co[c].pc = "insert_reviews"
    /\ co[c].todo # <<>>
    /\ CanRun(c)
    /\ reviews' = InsertOrReplace(reviews, Head(co[c].todo), txn.at,
                                  replace_keeps_cached_at)
    /\ co' = [co EXCEPT ![c] = [co[c] EXCEPT !.todo = Tail(co[c].todo)]]
    /\ running' = c
    /\ UNCHANGED <<conn, cache_metadata, now, replace_keeps_cached_at, last, txn,
                   req, api_key, generation>>

\* cache_reviews, line 306: COMMIT, and the method returns
StoreCommit(c) ==
    /\ co[c].pc = "insert_reviews"
    /\ co[c].todo = <<>>
    /\ CanRun(c)
    /\ txn' = NoTxn
    /\ generation' = [generation EXCEPT
                        ![co[c].cache_key] = Range(co[c].response.reviews)]
    /\ last' = [ op |-> "store", hours |-> co[c].hours,
                 source_filter |-> co[c].source_filter,
                 cache_key |-> co[c].cache_key, at |-> txn.at,
                 response |-> co[c].response,
                 cache_duration_hours |-> co[c].cache_duration_hours,
                 replaced |-> co[c].replaced ]
    /\ co' = [co EXCEPT ![c] = Idle]
    /\ running' = 0
    /\ UNCHANGED <<conn, cache_metadata, reviews, now, replace_keeps_cached_at,
                   req, api_key>>

\* the process with its cache connected
InitConc == InitWith({"ok"}, {TRUE})

NextConc ==
    \/ AdvanceConc
    \/ \E c \in Coroutines : ArriveLookup(c)
    \/ \E c \in Coroutines : ArriveStore(c)
    \/ \E c \in Coroutines : LookupValid(c)
    \/ \E c \in Coroutines : LookupMetadata(c)
    \/ \E c \in Coroutines : LookupReviews(c)
    \/ \E c \in Coroutines : StoreBegin(c)
    \/ \E c \in Coroutines : StoreDeleteMetadata(c)
    \/ \E c \in Coroutines : StoreInsertMetadata(c)
    \/ \E c \in Coroutines : StoreInsertReview(c)
    \/ \E c \in Coroutines : StoreCommit(c)

SpecConc == InitConc /\ [][NextConc]_vars

----------------------------------------------------------------------------
(* SpecFetch: the three source fetchers of WextractorService, one page     *)
(* request at a time.  A fetch call is a coroutine; co holds its locals.   *)
(* The locals of a fetch call are its own, so one coroutine is followed.   *)

\* _fetch_google_reviews and _fetch_apple_reviews: pages_to_fetch = 5
pages_to_fetch == 5

\* "if len(page_reviews) < 10": the size of a full page
full_page_size == 10

\* the page budgets of the callers
PageBudgets == 1 .. MaxBudget

\* pages_to_fetch of a fetch call of source for a caller whose page budget
\* is max_pages: only _fetch_trustpilot_reviews is handed the budget
PagesToFetch(source, max_pages) ==
    IF source = "trustpilot" THEN max_pages ELSE pages_to_fetch

\* A date text of an upstream record that datetime.fromisoformat accepts:
\* wall is the wall clock it spells, in ticks, and utcoffset the zone suffix
\* it carries, in ticks ("Z" is 0).
DateText(wall, utcoffset) == [parses |-> TRUE, wall |-> wall, utcoffset |-> utcoffset]

\* a date text datetime.fromisoformat rejects
BadDate == [parses |-> FALSE, wall |-> 0, utcoffset |-> 0]

\* an entry of data["reviews"]; rating 0 is what int(review.get("rating", 0))
\* gives for a record without a rating
RawReview(id, rating, date) == [id |-> id, rating |-> rating, date |-> date]

\* n upstream records with the ids first .. first + n - 1, all one hour old
\* at tick 0
RawRun(first, n) ==
    [i \in 1 .. n |->
        RawReview(first + i - 1, ((first + i - 1) % 5) + 1,
                  DateText(0 - TicksPerHour, 0))]

\* the id review.get("id", "") gives for a record without an id: the empty
\* string, which AppReview accepts (ids are numbered, the empty one is 0)
EmptyId == 0

\* the pages an upstream platform can answer with: two full pages that share
\* five records, a full page with one record AppReview rejects, a page of
\* four records (one of them twice, one of them of the first full page), a
\* page of two records of which the first has no id, and the empty page
FetchPages ==
    { RawRun(1, full_page_size),
      RawRun(6, full_page_size),
      [RawRun(1, full_page_size) EXCEPT ![3].rating = 0],
      <<RawRun(15, 1)[1], RawRun(16, 1)[1], RawRun(16, 1)[1], RawRun(1, 1)[1]>>,
      <<RawRun(EmptyId, 1)[1], RawRun(2, 1)[1]>>,
      <<>> }

\* what one page request comes back with: an exception (transport, timeout,
\* HTTP status, JSON), or a page with or without a next_page_cursor
AnswersOf(pages) ==
    { [kind |-> "error", reviews |-> <<>>, next_page_cursor |-> FALSE] } \cup
    { [kind |-> "ok", reviews |-> p, next_page_cursor |-> c] :
          p \in pages, c \in BOOLEAN }

PageOutcomes == AnswersOf(FetchPages)

\* _parse_google_reviews, _parse_apple_reviews, _parse_trustpilot_reviews:
\* a record AppReview rejects (rating outside 1 .. 5) is skipped, the others
\* are stamped with the source of the fetcher
_parse_reviews(source, raw_reviews) ==
    LET valid == SelectSeq(raw_reviews, LAMBDA r : r.rating \in 1 .. 5)
    IN  [i \in 1 .. Len(valid) |->
            [ id |-> valid[i].id, source |-> source,
              rating |-> valid[i].rating, date |-> valid[i].date ]]

\* the ids of a sequence of reviews
Ids(revs) == { revs[i].id : i \in DOMAIN revs }

\* unique_reviews of the mutant fetcher that never adds to seen_ids
UniqueReviewsNeverSeen(page_reviews, seen_ids) == page_reviews

RECURSIVE UniqueReviews(_, _)
\* unique_reviews of a page: "if review.id not in seen_ids", seen_ids
\* growing as the page is walked
UniqueReviews(page_reviews, seen_ids) ==
    IF page_reviews = <<>> THEN <<>>
    ELSE IF Head(page_reviews).id \in seen_ids
         THEN UniqueReviews(Tail(page_reviews), seen_ids)
         ELSE <<Head(page_reviews)>> \o
              UniqueReviews(Tail(page_reviews), seen_ids \cup {Head(page_reviews).id})

\* the break statements of the mutant fetcher that goes on after a failed
\* page request
BreaksNotOnError(source, answer) ==
    /\ answer.kind = "ok"
    /\ \/ source = "trustpilot" /\ ~answer.next_page_cursor
       \/ source # "trustpilot" /\
              Len(_parse_reviews(source, answer.reviews)) < full_page_size

\* the break statements of the three loops: any exception; for google and
\* apple a page of fewer than ten reviews; for trustpilot a page without
\* next_page_cursor
Breaks(source, answer) ==
    \/ answer.kind = "error"
    \/ source = "trustpilot" /\ ~answer.next_page_cursor
    \/ source # "trustpilot" /\
           Len(_parse_reviews(source, answer.reviews)) < full_page_size

\* the locals of a fetcher when it is entered
FetchLocals(source, max_pages) ==
    [ pc |-> "fetch", source |-> source, max_pages |-> max_pages,
      pages_to_fetch |-> PagesToFetch(source, max_pages),
      page |-> 0, requests |-> 0, broke |-> FALSE,
      all_reviews |-> <<>>, seen_ids |-> {},
      answers |-> <<>> ]      \* history: what the page requests came back with

\* one turn of "for page in range(pages_to_fetch)" on the locals f: the
\* page is requested, its new reviews are appended, and the loop goes on or
\* breaks
FetchTurn(f, answer) ==
    LET page_reviews == IF answer.kind = "ok"
                        THEN _parse_reviews(f.source, answer.reviews)
                        ELSE <<>>
        unique_reviews == UniqueReviews(page_reviews, f.seen_ids)
    IN  [ f EXCEPT !.page = @ + 1,
                   !.requests = @ + 1,
                   !.all_reviews = @ \o unique_reviews,
                   !.seen_ids = @ \cup Ids(unique_reviews),
                   !.broke = Breaks(f.source, answer),
                   !.answers = Append(@, answer) ]

\* the loop of the locals f is over
FetchDone(f) == f.broke \/ f.page = f.pages_to_fetch

\* a fetcher is called on behalf of a caller whose page budget is max_pages
FetchCall(c) ==
    \E source \in Sources, max_pages \in PageBudgets :
        /\ co[c] = Idle
        /\ co' = [co EXCEPT ![c] = FetchLocals(source, max_pages)]
        /\ req' = [op |-> "fetching"]
        /\ UNCHANGED <<conn, cache_metadata, reviews, now, replace_keeps_cached_at,
                       last, txn, running, api_key, generation>>

\* one page request of the fetch call
FetchPage(c) ==
    /\ co[c].pc = "fetch"
    /\ ~FetchDone(co[c])
    /\ \E answer \in PageOutcomes :
          co' = [co EXCEPT ![c] = FetchTurn(co[c], answer)]
    /\ UNCHANGED <<conn, cache_metadata, reviews, now, replace_keeps_cached_at,
                   last, txn, running, req, api_key, generation>>

\* the loop is left and the fetcher returns all_reviews
FetchReturn(c) ==
    /\ co[c].pc = "fetch"
    /\ FetchDone(co[c])
    /\ req' = [ op |-> "fetch", source |-> co[c].source,
                max_pages |-> co[c].max_pages, requests |-> co[c].requests,
                broke |-> co[c].broke, answers |-> co[c].answers,
                returned |-> co[c].all_reviews ]
    /\ co' = [co EXCEPT ![c] = Idle]
    /\ UNCHANGED <<conn, cache_metadata, reviews, now, replace_keeps_cached_at,
                   last, txn, running, api_key, generation>>

InitFetch == InitWith({"ok"}, {TRUE})

NextFetch ==
    \/ FetchCall(1)
    \/ FetchPage(1)
    \/ FetchReturn(1)

SpecFetch == InitFetch /\ [][NextFetch]_vars

----------------------------------------------------------------------------
(* SpecAggregate: WextractorService.get_reviews, the three fetchers called *)
(* one after the other, one page request at a time, then the merge.        *)

\* the order of the calls at lines 52-54
FetchOrder == <<"google", "apple", "trustpilot">>

\* datetime.now() is the wall clock of the zone the process runs in: its
\* offset from UTC, in ticks
ServerOffsets == {0, 2 * TicksPerHour}

\* the pages the platforms answer an aggregation with: five reviews one hour
\* old, three more, the empty page, and a page of five records that are, at
\* tick 0, 23 hours old, 25 hours old (and sent twice), 24 hours old written
\* with a +02:00 suffix, and without a date that parses
AggregatePages ==
    { RawRun(1, 5),
      RawRun(6, 3),
      <<>>,
      << RawReview(5, 5, DateText(0 - 23 * TicksPerHour, 0)),
         RawReview(21, 1, DateText(0 - 25 * TicksPerHour, 0)),
         RawReview(22, 3, DateText(0 - 22 * TicksPerHour, 2 * TicksPerHour)),
         RawReview(23, 2, BadDate),
         RawReview(21, 1, DateText(0 - 25 * TicksPerHour, 0)) >> }

\* all_reviews of the mutant aggregation that leaves one fetcher out
MergeWithoutApple(fetched) == fetched["google"] \o fetched["trustpilot"]

\* line 57: all_reviews = google_reviews + apple_reviews + trustpilot_reviews
MergeFetched(fetched) ==
    fetched["google"] \o fetched["apple"] \o fetched["trustpilot"]

\* line 49: time_threshold = datetime.now() - timedelta(hours=hours), a wall
\* clock of the server's zone
TimeThreshold(at, utcoffset, hours) == (at + utcoffset) - hours * TicksPerHour

\* the filter of the mutant aggregation that drops what it cannot parse
PassesFilterOnlyParsed(date, time_threshold) ==
    date.parses /\ date.wall >= time_threshold

\* lines 64-77: the date is parsed, its zone is removed by
\* replace(tzinfo=None), and the wall clock left is compared with
\* time_threshold; a date that does not parse keeps the review
PassesFilter(date, time_threshold) ==
    IF date.parses THEN date.wall >= time_threshold ELSE TRUE

\* Python's order of two date texts as strings, a > b: the wall clocks are
\* compared first, then the suffixes ("+02:00" < "Z"); a text that does not
\* parse is taken to start with a letter, which is after every digit
TextAfter(a, b) ==
    IF ~a.parses THEN b.parses
    ELSE /\ b.parses
         /\ \/ a.wall > b.wall
            \/ a.wall = b.wall /\ a.utcoffset = 0 /\ b.utcoffset # 0

RECURSIVE SortByDateDesc(_)
\* line 82: filtered_reviews.sort(key=lambda x: x.date, reverse=True); the
\* sort is stable
SortByDateDesc(revs) ==
    IF revs = <<>> THEN <<>>
    ELSE LET rest == SortByDateDesc(Tail(revs))
             r == Head(revs)
             \* r goes before every review of rest that is not after it
             k == Cardinality({i \in DOMAIN rest : TextAfter(rest[i].date, r.date)})
         IN  SubSeq(rest, 1, k) \o <<r>> \o SubSeq(rest, k + 1, Len(rest))

\* the dictionary of the mutant aggregation that serves demonstration data
\* when the platforms delivered nothing
AggregateResultDemoWhenEmpty(fetched, hours, at, utcoffset) ==
    LET demo == <<[ id |-> 0, source |-> "google", rating |-> 5,
                    date |-> DateText(at + utcoffset - TicksPerHour, 0) ]>>
        revs == IF MergeFetched(fetched) = <<>> THEN demo ELSE MergeFetched(fetched)
    IN  [ reviews |-> revs,
          stats |-> _calculate_stats(revs, CountSource(revs, "google"),
                                     CountSource(revs, "apple"),
                                     CountSource(revs, "trustpilot")),
          time_range_hours |-> hours ]

\* lines 56-95: what get_reviews returns for the lists of the three
\* fetchers.  No statement of the try block raises for reviews the parsers
\* let through, so the handler of lines 96-99 is not entered.
AggregateResult(fetched, hours, at, utcoffset) ==
    LET all_reviews == MergeFetched(fetched)
        time_threshold == TimeThreshold(at, utcoffset, hours)
        filtered_reviews ==
            SortByDateDesc(SelectSeq(all_reviews,
                LAMBDA r : PassesFilter(r.date, time_threshold)))
    IN  [ reviews |-> filtered_reviews,
          stats |-> _calculate_stats(filtered_reviews,
                                     CountSource(filtered_reviews, "google"),
                                     CountSource(filtered_reviews, "apple"),
                                     CountSource(filtered_reviews, "trustpilot")),
          time_range_hours |-> hours ]

\* nothing fetched yet
NoneFetched == [s \in Sources |-> <<>>]

\* get_reviews(hours, max_trustpilot_pages) is called: without an api_key it
\* raises ValueError at line 45, otherwise it reads the clock and enters the
\* first fetcher
AggregateCall(c) ==
    \E hours \in HoursValues, max_trustpilot_pages \in PageBudgets,
       utcoffset \in ServerOffsets :
        /\ co[c] = Idle
        /\ IF api_key
           THEN /\ co' = [co EXCEPT ![c] =
                            [ pc |-> "aggregate", hours |-> hours,
                              max_trustpilot_pages |-> max_trustpilot_pages,
                              utcoffset |-> utcoffset, at |-> now, stage |-> 1,
                              fetch |-> FetchLocals(FetchOrder[1], max_trustpilot_pages),
                              fetched |-> NoneFetched,
                              answers |-> NoneFetched ]]
                /\ req' = [op |-> "aggregating"]
           ELSE /\ req' = [ op |-> "aggregate", raised |-> "ValueError",
                            hours |-> hours, at |-> now, utcoffset |-> utcoffset,
                            finished |-> {},
                            fetched |-> NoneFetched, answers |-> NoneFetched,
                            out |-> None ]
                /\ UNCHANGED co
        /\ UNCHANGED <<conn, cache_metadata, reviews, now, replace_keeps_cached_at,
                       last, txn, running, api_key, generation>>

\* one page request of the fetcher the aggregation is in
AggregatePage(c) ==
    /\ co[c].pc = "aggregate"
    /\ ~FetchDone(co[c].fetch)
    /\ \E answer \in AnswersOf(AggregatePages) :
          co' = [co EXCEPT ![c].fetch = FetchTurn(@, answer)]
    /\ UNCHANGED <<conn, cache_metadata, reviews, now, replace_keeps_cached_at,
                   last, txn, running, req, api_key, generation>>

\* the run record after the fetcher it is in has returned
Fetched(run) ==
    [ run EXCEPT !.fetched[run.fetch.source] = run.fetch.all_reviews,
                 !.answers[run.fetch.source] = run.fetch.answers ]

\* the fetcher returns and the next one is entered
AggregateNext(c) ==
    /\ co[c].pc = "aggregate"
    /\ FetchDone(co[c].fetch)
    /\ co[c].stage < Len(FetchOrder)
    /\ co' = [co EXCEPT ![c] =
                [ Fetched(co[c]) EXCEPT
                    !.stage = @ + 1,
                    !.fetch = FetchLocals(FetchOrder[co[c].stage + 1],
                                          co[c].max_trustpilot_pages) ]]
    /\ UNCHANGED <<conn, cache_metadata, reviews, now, replace_keeps_cached_at,
                   last, txn, running, req, api_key, generation>>

\* the last fetcher returns; the lists are merged, filtered and sorted, the
\* statistics computed, and get_reviews returns
AggregateReturn(c) ==
    /\ co[c].pc = "aggregate"
    /\ FetchDone(co[c].fetch)
    /\ co[c].stage = Len(FetchOrder)
    /\ LET run == Fetched(co[c])
       IN  req' = [ op |-> "aggregate", raised |-> None,
                    hours |-> run.hours, at |-> run.at, utcoffset |-> run.utcoffset,
                    finished |-> { FetchOrder[i] : i \in 1 .. run.stage },
                    fetched |-> run.fetched, answers |-> run.answers,
                    out |-> AggregateResult(run.fetched, run.hours, run.at,
                                            run.utcoffset) ]
    /\ co' = [co EXCEPT ![c] = Idle]
    /\ UNCHANGED <<conn, cache_metadata, reviews, now, replace_keeps_cached_at,
                   last, txn, running, api_key, generation>>

\* the clock ticks between two aggregations
AdvanceIdle == co[1] = Idle /\ Advance

InitAggregate == InitWith({"ok"}, BOOLEAN)

NextAggregate ==
    \/ AdvanceIdle
    \/ AggregateCall(1)
    \/ AggregatePage(1)
    \/ AggregateNext(1)
    \/ AggregateReturn(1)

SpecAggregate == InitAggregate /\ [][NextAggregate]_vars

\* ---------------------------------------------------------------------------
\* The two-source aggregator of src/apps/backend/services: GooglePlayService,
\* AppStoreService and ReviewAggregator.get_all_reviews, called by main.py with
\* time_threshold = datetime.now() - timedelta(hours=hours)
\* ---------------------------------------------------------------------------

\* a review as a store library delivers it: its date is a datetime
\* (is_datetime, and text is what isoformat() makes of it) or a string
StoreReview(id, rating, is_datetime, text) ==
    [id |-> id, rating |-> rating, is_datetime |-> is_datetime, text |-> text]

\* what gp_reviews(..., sort=Sort.NEWEST) can deliver: three reviews from
\* newest to oldest of which the last is 25 hours old at tick 0, an old
\* review ahead of a new one, a review without a score next to one whose
\* 'at' is not a datetime, and no review
GooglePlayResults ==
    { << StoreReview(101, 5, TRUE, DateText(0 - TicksPerHour, 0)),
         StoreReview(102, 2, TRUE, DateText(0 - 23 * TicksPerHour, 0)),
         StoreReview(103, 4, TRUE, DateText(0 - 25 * TicksPerHour, 0)) >>,
      << StoreReview(104, 1, TRUE, DateText(0 - 25 * TicksPerHour, 0)),
         StoreReview(105, 3, TRUE, DateText(0 - TicksPerHour, 0)) >>,
      << StoreReview(106, 0, TRUE, DateText(0 - 2 * TicksPerHour, 0)),
         StoreReview(107, 4, FALSE, DateText(0 - TicksPerHour, 0)) >>,
      << >> }

\* what app.reviews can hold after app.review(how_many=limit): datetimes in
\* no particular order, one of them 25 hours old at tick 0, string dates of
\* which one does not parse, and no review
AppStoreResults ==
    { << StoreReview(201, 4, TRUE, DateText(0 - 2 * TicksPerHour, 0)),
         StoreReview(202, 1, TRUE, DateText(0 - 25 * TicksPerHour, 0)),
         StoreReview(203, 5, TRUE, DateText(0 - TicksPerHour, 0)) >>,
      << StoreReview(204, 3, FALSE, DateText(0 - 23 * TicksPerHour, 0)),
         StoreReview(205, 2, FALSE, BadDate) >>,
      << >> }

\* _format_review of the two services: the date becomes its text
FormatReview(source, review) ==
    [id |-> review.id, rating |-> review.rating, date |-> review.text,
     source |-> source]

RECURSIVE GooglePlayFilter(_, _)
\* lines 48-58 of google_play_service.py: a datetime at or after the
\* threshold is kept, the first one before it ends the loop, and a review
\* whose 'at' is no datetime is passed over
GooglePlayFilter(result, time_threshold) ==
    IF result = <<>> THEN <<>>
    ELSE LET review == Head(result)
         IN  IF ~review.is_datetime
             THEN GooglePlayFilter(Tail(result), time_threshold)
             ELSE IF review.text.wall >= time_threshold
             THEN <<FormatReview("google", review)>>
                      \o GooglePlayFilter(Tail(result), time_threshold)
             ELSE <<>>

\* lines 50-65 of app_store_service.py: a datetime or a parsed string at or
\* after the threshold is kept, a string that does not parse is kept, and
\* the loop goes on after an old review
AppStoreFilter(app_reviews, time_threshold) ==
    LET kept == SelectSeq(app_reviews,
                    LAMBDA review : \/ ~review.is_datetime /\ ~review.text.parses
                                    \/ review.text.wall >= time_threshold)
    IN  [i \in DOMAIN kept |-> FormatReview("apple", kept[i])]

\* a merge that leaves the concatenation as it is
MergeUnsorted(google_reviews, apple_reviews) == google_reviews \o apple_reviews

\* lines 48-54 of review_aggregator.py: all_reviews = google_reviews +
\* apple_reviews; all_reviews.sort(key=lambda x: x['date'], reverse=True)
MergeAndSort(google_reviews, apple_reviews) ==
    SortByDateDesc(google_reviews \o apple_reviews)

\* ReviewAggregator._calculate_stats; avgRating is in tenths, rounded as
\* round(total_rating / total_reviews, 1) rounds (a tie goes to the even tenth)
AggregatorCalculateStats(all_reviews, google_reviews, apple_reviews) ==
    IF all_reviews = <<>>
    THEN [ totalReviews |-> 0, avgRating |-> 0, googlePlayReviews |-> 0,
           appStoreReviews |-> 0, positiveReviews |-> 0, negativeReviews |-> 0 ]
    ELSE LET total_reviews == Len(all_reviews)
             total_rating == SumRatings(all_reviews)
             floor == (10 * total_rating) \div total_reviews
             twice_rest == 2 * ((10 * total_rating) % total_reviews)
         IN  [ totalReviews |-> total_reviews,
               avgRating |-> IF twice_rest > total_reviews THEN floor + 1
                             ELSE IF twice_rest < total_reviews THEN floor
                             ELSE floor + (floor % 2),
               googlePlayReviews |-> Len(google_reviews),
               appStoreReviews |-> Len(apple_reviews),
               positiveReviews |->
                   Cardinality({i \in DOMAIN all_reviews : all_reviews[i].rating >= 4}),
               negativeReviews |->
                   Cardinality({i \in DOMAIN all_reviews : all_reviews[i].rating <= 2}) ]

\* main.py calls get_all_reviews with the threshold of the moment
GetAllReviewsCall(c) ==
    \E hours \in HoursValues :
        /\ co[c] = Idle
        /\ co' = [co EXCEPT ![c] =
                    [ pc |-> "google", time_threshold |-> now - hours * TicksPerHour,
                      google_raised |-> FALSE, google_reviews |-> <<>>,
                      apple_raised |-> FALSE, apple_reviews |-> <<>> ]]
        /\ req' = [op |-> "merging"]
        /\ UNCHANGED <<conn, cache_metadata, reviews, now, replace_keeps_cached_at,
                       last, txn, running, api_key, generation>>

\* GooglePlayService.get_reviews: the filtered list, or [] when anything
\* inside the try raised
GooglePlayGetReviews(c) ==
    \E raised \in BOOLEAN, result \in GooglePlayResults :
        /\ co[c].pc = "google"
        /\ co' = [co EXCEPT ![c].pc = "apple",
                            ![c].google_raised = raised,
                            ![c].google_reviews =
                                IF raised THEN <<>>
                                ELSE GooglePlayFilter(result, co[c].time_threshold)]
        /\ UNCHANGED <<conn, cache_metadata, reviews, now, replace_keeps_cached_at,
                       last, txn, running, req, api_key, generation>>

\* AppStoreService.get_reviews: the filtered list, or [] when anything
\* inside the try raised
AppStoreGetReviews(c) ==
    \E raised \in BOOLEAN, app_reviews \in AppStoreResults :
        /\ co[c].pc = "apple"
        /\ co' = [co EXCEPT ![c].pc = "merge",
                            ![c].apple_raised = raised,
                            ![c].apple_reviews =
                                IF raised THEN <<>>
                                ELSE AppStoreFilter(app_reviews, co[c].time_threshold)]
        /\ UNCHANGED <<conn, cache_metadata, reviews, now, replace_keeps_cached_at,
                       last, txn, running, req, api_key, generation>>

\* lines 47-62 of review_aggregator.py: merge, sort, statistics, return
GetAllReviewsReturn(c) ==
    /\ co[c].pc = "merge"
    /\ LET all_reviews == MergeAndSort(co[c].google_reviews, co[c].apple_reviews)
       IN  req' = [ op |-> "get_all_reviews",
                    time_threshold |-> co[c].time_threshold,
                    google_raised |-> co[c].google_raised,
                    google_reviews |-> co[c].google_reviews,
                    apple_raised |-> co[c].apple_raised,
                    apple_reviews |-> co[c].apple_reviews,
                    out |-> [ reviews |-> all_reviews,
                              stats |-> AggregatorCalculateStats(all_reviews,
                                            co[c].google_reviews,
                                            co[c].apple_reviews) ] ]
    /\ co' = [co EXCEPT ![c] = Idle]
    /\ UNCHANGED <<conn, cache_metadata, reviews, now, replace_keeps_cached_at,
                   last, txn, running, api_key, generation>>

InitTwoSource == InitWith({"ok"}, BOOLEAN)

NextTwoSource ==
    \/ AdvanceIdle
    \/ GetAllReviewsCall(1)
    \/ GooglePlayGetReviews(1)
    \/ AppStoreGetReviews(1)
    \/ GetAllReviewsReturn(1)

SpecTwoSource == InitTwoSource /\ [][NextTwoSource]_vars

----------------------------------------------------------------------------
(* Claims about the Cache Store, checked under SpecCache *)

HasEntry(k) == \E m \in cache_metadata : m.cache_key = k

EntryOf(k) == CHOOSE m \in cache_metadata : m.cache_key = k

\* the entry of k is there and not expired at time t
LiveAt(k, t) == HasEntry(k) /\ t < EntryOf(k).expires_at

\* C2: a store immediately followed by a lookup of the same key before the
\* ttl has elapsed returns an entry with the review identities and the stats
\* (total, average, distribution, the three per-source counts) of the store.
C2_RoundTrip ==
    [][ ( /\ conn
          /\ last.op = "store"
          /\ last'.op = "lookup"
          /\ last'.cache_key = last.cache_key
          /\ now < ExpiresAt(last.at, last.cache_duration_hours) )
        => ( /\ last'.out.stage = "hit"
             /\ Range(last'.out.result.reviews) = Range(last.response.reviews)
             /\ last'.out.result.stats = last.response.stats ) ]_vars

\* C3: a lookup of a key that has no entry, or whose entry has
\* now >= expires_at, is absent: it is turned away by the validity check and
\* reads no review row, whether or not the expired entry was swept.
C3_ExpiredOrMissingIsAbsent ==
    ( last.op = "lookup" /\ ~LiveAt(last.cache_key, last.at) )
        => ( /\ last.out.result = None
             /\ ~last.out.validated
             /\ last.out.reviews_data = <<>> )

\* C3 witness: a lookup met an expired entry that no sweep had removed yet
C3_Witness ==
    /\ conn
    /\ last.op = "lookup"
    /\ HasEntry(last.cache_key)
    /\ EntryOf(last.cache_key).expires_at <= last.at
    /\ last.out.result = None

\* C4: whenever the key has an entry with now < expires_at, lookup returns
\* that entry, also when the stored review set is empty.
C4_ValidEntryIsReturned ==
    ( conn /\ last.op = "lookup" /\ LiveAt(last.cache_key, last.at) )
        => last.out.stage = "hit"

\* C5: a lookup that finds its key valid reads only review rows written by
\* the store that created the key's entry, as many as the entry's
\* total_count says.
C5_GenerationConsistent ==
    ( conn /\ last.op = "lookup" /\ last.out.validated )
        => ( /\ { RowToReview(r) : r \in Range(last.out.reviews_data) }
                    \subseteq generation[last.cache_key]
             /\ Len(last.out.reviews_data) = EntryOf(last.cache_key).total_count )

\* C6: after a store replaced the entry of k there is exactly one entry
\* for k, expiring at the time of that store plus its ttl, and a lookup of k
\* before then returns the identities and stats of the second store.
C6_StoreReplaces ==
    [][ ( /\ conn
          /\ last.op = "store"
          /\ last.replaced
          /\ last'.op = "lookup"
          /\ last'.cache_key = last.cache_key
          /\ now < ExpiresAt(last.at, last.cache_duration_hours) )
        => ( /\ Cardinality(SelectMetadata(cache_metadata, last.cache_key)) = 1
             /\ EntryOf(last.cache_key).expires_at
                    = last.at + last.cache_duration_hours * TicksPerHour
             /\ last'.out.stage = "hit"
             /\ Range(last'.out.result.reviews) = Range(last.response.reviews)
             /\ last'.out.result.stats = last.response.stats ) ]_vars

\* C8: a sweep deletes every entry with expires_at <= now and keeps every
\* entry with expires_at > now, unchanged.
C8_SweepDeletesExactlyExpired ==
    [][ ( conn /\ CleanupExpiredCache )
        => cache_metadata' = { m \in cache_metadata : m.expires_at > now } ]_vars

\* C8 witness: a sweep removed an expired entry and kept a live one
C8_Witness ==
    /\ conn
    /\ last.op = "sweep"
    /\ last.expired # {}
    /\ \E m \in cache_metadata : m.expires_at > last.at

\* C9: right after a sweep every stored review row belongs to the
\* generation of an entry that is still current, so none remains when no
\* entry remains.
C9_NoOrphanAfterSweep ==
    ( conn /\ last.op = "sweep" )
        => \A r \in reviews :
              \E m \in cache_metadata :
                  /\ m.expires_at > last.at
                  /\ RowToReview(r) \in generation[m.cache_key]

\* C10: stats() reports the number of distinct keys, the number of stored
\* review rows and the number of keys with expires_at > now.
C10_StatsReportOccupancy ==
    ( conn /\ last.op = "stats" )
        => ( /\ last.out.cache_entries = Cardinality({ m.cache_key : m \in cache_metadata })
             /\ last.out.total_reviews = Cardinality(reviews)
             /\ last.out.valid_caches
                    = Cardinality({ m \in cache_metadata : m.expires_at > last.at }) )

\* the request shapes whose derived key is not k
OtherShapes(k) ==
    { sh \in HoursValues \X SourceFilters : _generate_cache_key(sh[1], sh[2]) # k }

\* C11: clear(k) deletes the entry of k, so that a lookup of k is turned
\* away, and leaves every other key's entry and what a lookup of it reads
\* and returns as they were; clear() without a key empties both tables.
C11_ClearFrame ==
    [][ ( conn /\ ClearCache )
        => IF last'.cache_key # NoKey
           THEN /\ cache_metadata'
                      = { m \in cache_metadata : m.cache_key # last'.cache_key }
                /\ ~_is_cache_valid(cache_metadata', last'.cache_key, now)
                /\ \A sh \in OtherShapes(last'.cache_key) :
                      get_cached_reviews(conn, cache_metadata', reviews', now, sh[1], sh[2])
                          = get_cached_reviews(conn, cache_metadata, reviews, now,
                                               sh[1], sh[2])
           ELSE cache_metadata' = {} /\ reviews' = {} ]_vars

\* C11 witness: a clear by key removed that key's entry while another key's
\* entry and review rows were there
C11_Witness ==
    /\ conn
    /\ last.op = "clear"
    /\ last.cache_key # NoKey
    /\ last.removed = {last.cache_key}
    /\ cache_metadata # {}
    /\ reviews # {}

\* C12: a clear(k) that follows a clear(k) changes neither table (and
\* clear_cache has no way to raise: every exception is caught), whether or
\* not k had an entry and also without a connection.
C12_ClearIdempotent ==
    [][ ( ClearCache /\ last.op = "clear" /\ last'.cache_key = last.cache_key )
        => ( cache_metadata' = cache_metadata /\ reviews' = reviews ) ]_vars

\* C12 witness: clear(k) was called twice in a row, the first call having
\* removed the entry of k, with review rows in the store
C12_Witness ==
    /\ conn
    /\ last.op = "clear"
    /\ last.again
    /\ last.cache_key # NoKey
    /\ last.removed_before = {last.cache_key}
    /\ reviews # {}

\* C13: under every storage condition the constructor returns; and without
\* a connection every lookup reports absent and no store, sweep or clear
\* writes anything.
C13_DegradedMode ==
    /\ Constructed
    /\ ( ~conn /\ last.op = "lookup" ) => last.out.result = None
    /\ ~conn => ( cache_metadata = {} /\ reviews = {} )

\* the calls that derive a key from a window and a filter
KeyedCalls == {"lookup", "store"}

----------------------------------------------------------------------------
(* Claims about concurrent requests, checked under SpecConc *)

\* C7: a lookup of k whose request met a store of k under way, and that
\* found k valid, reads the review rows of one whole generation of k: the
\* reviews of the store committed for k when the lookup began, or of the
\* store committed for k when it returns; never fewer, more or a mix.
C7_LookupSeesWholeGeneration ==
    ( /\ last.op = "lookup"
      /\ "obs" \in DOMAIN last
      /\ last.overlapped
      /\ last.obs.validated )
        => { RowToReview(r) : r \in Range(last.obs.reviews_data) }
               \in last.generations

\* C7, the part that is about interleaving: what a lookup reads is what its
\* three SELECTs read on the tables as committed when it began or as
\* committed when it returns, never the tables of a transaction under way.
C7_LookupReadsCommittedTables ==
    ( last.op = "lookup" /\ "obs" \in DOMAIN last ) => last.obs \in last.whole

\* C7 witness: a lookup whose request arrived while a store of its key was
\* between BEGIN and COMMIT has read that key's metadata and review rows
C7_Witness ==
    /\ last.op = "lookup"
    /\ "obs" \in DOMAIN last
    /\ last.overlapped
    /\ last.obs.found # {}
    /\ last.obs.reviews_data # <<>>

----------------------------------------------------------------------------
(* Claims about the requests, checked under SpecService *)

\* a step that serves a get_reviews request
GetStep == req'.op = "get" /\ ~Advance

\* C1: with the credential configured, a get with cached=true is answered:
\* by the Cache Store, or it misses, aggregates and returns; and a second get
\* of the same window and filter that follows such a return before the ttl
\* has elapsed, with no clear or sweep in between, is answered by the Cache
\* Store and asks the upstream for no page.
C1_RepeatedRequestsServedFromCache ==
    [][ ( GetStep /\ conn /\ api_key /\ req'.cached /\ ~req'.force_refresh )
        => ( /\ req'.outcome \in {"hit", "fresh"}
             /\ ( ( /\ req.op = "get"
                    /\ req.cached
                    /\ req.outcome = "fresh"
                    /\ req.cache_key = req'.cache_key
                    /\ now < ExpiresAt(req.at + 1, default_cache_duration_hours) )
                  => ( req'.outcome = "hit" /\ req'.upstream_pages = 0 ) ) ) ]_vars

\* C15: a request with cached=true and force_refresh=false checks the cache
\* first; on a hit it returns without the aggregator and without a cache
\* write; on a miss it runs the aggregator, then writes the cache once, then
\* returns (credential configured).
C15_RequestOrdering ==
    [][ ( GetStep /\ api_key /\ req'.cached /\ ~req'.force_refresh )
        => req'.trace \in { <<"CacheCheck", "return">>,
                            <<"CacheCheck", "Aggregate", "CacheWrite", "return">> } ]_vars

\* C16: a request with force_refresh=true (and cached=true, credential
\* configured) goes to the aggregator without a cache check, then writes the
\* cache, then returns; and the next request of the same key without
\* force_refresh, before the ttl has elapsed, is a hit.
C16_ForceRefresh ==
    [][ ( GetStep /\ conn /\ api_key /\ req'.cached )
        => ( /\ req'.force_refresh
                    => req'.trace = <<"Aggregate", "CacheWrite", "return">>
             /\ ( /\ ~req'.force_refresh
                  /\ req.op = "get"
                  /\ req.force_refresh
                  /\ req.cached
                  /\ req.cache_written
                  /\ req.cache_key = req'.cache_key
                  /\ now < ExpiresAt(req.at + 1, default_cache_duration_hours) )
                    => req'.outcome = "hit" ) ]_vars

\* C17: a request whose cache write fails (credential configured, no hit)
\* returns the freshly aggregated response all the same.
C17_CacheWriteFailureSwallowed ==
    [][ ( GetStep /\ conn /\ api_key /\ req'.cached /\ req'.cache_fault
          /\ req'.outcome # "hit" )
        => ( req'.outcome = "fresh" /\ ~req'.cache_written ) ]_vars

\* C18: with the credential configured every request returns a response,
\* whatever the cache flags, the page budget, the state of the cache
\* connection and the upstream.
C18_OnlyMissingCredentialFails ==
    [][ ( GetStep /\ api_key ) => req'.outcome \in {"hit", "fresh"} ]_vars

\* C19: without the credential a request that is not served from the cache
\* fails with the configuration error (ValueError), has asked the upstream
\* for no page and has written no cache entry.
C19_MissingCredential ==
    [][ ( GetStep /\ ~api_key /\ req'.outcome # "hit" )
        => ( /\ req'.outcome = "ValueError"
             /\ req'.upstream_pages = 0
             /\ ~req'.cache_written
             /\ cache_metadata' = cache_metadata ) ]_vars

----------------------------------------------------------------------------
(* Claims about the source fetchers, checked under SpecFetch *)

\* C20: a fetch call that has returned has issued at most as many page
\* requests as the page budget of its caller, for each of the three
\* fetchers and whatever the pages came back with.
C20_PageBudget ==
    req.op = "fetch" => req.requests <= req.max_pages

\* the reviews of a page as the fetcher of source reads them
PageReviews(source, answer) ==
    IF answer.kind = "ok" THEN _parse_reviews(source, answer.reviews) ELSE <<>>

RECURSIVE Received(_, _)
\* the reviews of the pages a fetcher of source was answered with, in the
\* order they came
Received(source, answers) ==
    IF answers = <<>> THEN <<>>
    ELSE PageReviews(source, Head(answers)) \o Received(source, Tail(answers))

RECURSIVE FirstOccurrencesFrom(_, _)
FirstOccurrencesFrom(revs, i) ==
    IF i > Len(revs) THEN <<>>
    ELSE (IF \E j \in 1 .. i - 1 : revs[j].id = revs[i].id THEN <<>> ELSE <<revs[i]>>)
         \o FirstOccurrencesFrom(revs, i + 1)

\* revs without the records whose id an earlier record has
FirstOccurrences(revs) == FirstOccurrencesFrom(revs, 1)

\* C21: in a fetch call that has returned, a page of fewer than ten reviews
\* is the last page that was requested, for each of the three fetchers.
C21_ShortPageEndsPagination ==
    req.op = "fetch" =>
        \A i \in DOMAIN req.answers :
            ( /\ req.answers[i].kind = "ok"
              /\ Len(PageReviews(req.source, req.answers[i])) < full_page_size )
            => i = Len(req.answers)

\* C31: of every page a fetch call was answered with, the records without
\* an id or with a rating outside 1 .. 5 are not among the reviews the parser
\* made of the page, and every other record is.
C31_MalformedRecordsDropped ==
    req.op = "fetch" =>
        \A i \in DOMAIN req.answers :
            LET raw == req.answers[i].reviews
                page_reviews == PageReviews(req.source, req.answers[i])
            IN  \A j \in DOMAIN raw :
                    (raw[j].id = EmptyId \/ raw[j].rating \notin 1 .. 5)
                    <=> ~ \E k \in DOMAIN page_reviews :
                            /\ page_reviews[k].id = raw[j].id
                            /\ page_reviews[k].rating = raw[j].rating

\* C35: in a call of the Google or of the App Store fetcher that has
\* returned, a page that carried ten records or more and was not the last
\* page of the budget was followed by another page request.
C35_EndOfDataCountsRawRecords ==
    (req.op = "fetch" /\ req.source # "trustpilot") =>
        \A i \in DOMAIN req.answers :
            ( /\ req.answers[i].kind = "ok"
              /\ Len(req.answers[i].reviews) >= full_page_size
              /\ i < PagesToFetch(req.source, req.max_pages) )
            => i < Len(req.answers)

----------------------------------------------------------------------------
(* Claims about the aggregation, checked under SpecAggregate *)

\* an aggregation has returned its dictionary
Aggregated == req.op = "aggregate" /\ req.raised = None

\* C22: the list each fetch call of an aggregation returned holds the
\* reviews of its pages without the records whose id an earlier record of
\* the call has, in the order of their first occurrence, and no two reviews
\* of the aggregation's output have the same source and id.
C22_Deduplication ==
    Aggregated =>
        /\ \A s \in Sources :
              req.fetched[s] = FirstOccurrences(Received(s, req.answers[s]))
        /\ \A i, j \in DOMAIN req.out.reviews :
              ( /\ req.out.reviews[i].source = req.out.reviews[j].source
                /\ req.out.reviews[i].id = req.out.reviews[j].id ) => i = j

\* an aggregation whose Trustpilot fetcher met one id on both of its pages,
\* and met an id twice on one page
C22_Witness ==
    /\ Aggregated
    /\ Len(req.answers["trustpilot"]) = 2
    /\ Ids(PageReviews("trustpilot", req.answers["trustpilot"][1])) \cap
       Ids(PageReviews("trustpilot", req.answers["trustpilot"][2])) # {}
    /\ Cardinality(Ids(PageReviews("trustpilot", req.answers["trustpilot"][2])))
         < Len(PageReviews("trustpilot", req.answers["trustpilot"][2]))
    /\ Len(req.fetched["trustpilot"]) < Len(Received("trustpilot", req.answers["trustpilot"]))
    /\ CountSource(req.out.reviews, "trustpilot") > 0

\* the instant a date text that parses names, in ticks of UTC
Instant(date) == date.wall - date.utcoffset

\* the reviews the three fetchers of the logged aggregation returned
FetchedReviews == UNION { Range(req.fetched[s]) : s \in Sources }

\* the threshold the logged aggregation filtered with
LoggedThreshold == TimeThreshold(req.at, req.utcoffset, req.hours)

C25_TimeWindowFilter ==
    Aggregated =>
        \A r \in FetchedReviews :
            r.date.parses =>
                ( (r \in Range(req.out.reviews))
                  <=> (Instant(r.date) >= req.at - req.hours * TicksPerHour) )

\* C26: a fetched review whose date does not parse is in the output of the
\* aggregation, and an aggregation with an api_key returns.
C26_UnparsedDateIsKept ==
    /\ Aggregated =>
          \A r \in FetchedReviews : ~r.date.parses => r \in Range(req.out.reviews)
    /\ (req.op = "aggregate" /\ api_key) => req.raised = None

\* an aggregation that kept a review without a date that parses and
\* filtered another review out
C26_Witness ==
    /\ Aggregated
    /\ \E r \in Range(req.out.reviews) : ~r.date.parses
    /\ \E r \in FetchedReviews : r \notin Range(req.out.reviews)

\* C27: in the output of an aggregation, a review is never followed by a
\* review of a later date (dates that parse, compared as instants).
C27_OutputNonIncreasingByDate ==
    Aggregated =>
        \A i, j \in DOMAIN req.out.reviews :
            ( /\ i < j
              /\ req.out.reviews[i].date.parses
              /\ req.out.reviews[j].date.parses )
            => Instant(req.out.reviews[i].date) >= Instant(req.out.reviews[j].date)

\* C28: the statistics of an aggregation's output: the rating distribution
\* has the keys 1 .. 5 and sums to total_reviews, total_reviews is the number
\* of output reviews, and the three per-source counts sum to total_reviews.
C28_StatsInvariants ==
    Aggregated =>
        LET stats == req.out.stats
            d == stats.rating_distribution
        IN  /\ DOMAIN d = 1 .. 5
            /\ d[1] + d[2] + d[3] + d[4] + d[5] = stats.total_reviews
            /\ stats.total_reviews = Len(req.out.reviews)
            /\ stats.google_reviews + stats.apple_reviews + stats.trustpilot_reviews
                 = stats.total_reviews

\* an output with reviews of all three platforms and of several ratings
C28_Witness ==
    /\ Aggregated
    /\ req.out.stats.google_reviews > 0
    /\ req.out.stats.apple_reviews > 0
    /\ req.out.stats.trustpilot_reviews > 0
    /\ Cardinality({k \in 1 .. 5 : req.out.stats.rating_distribution[k] > 0}) >= 3
    /\ Len(req.out.reviews) < Cardinality(FetchedReviews)

\* C32: of the response the source filter of the review service makes of an
\* aggregation, total_reviews is the number of reviews returned, the sum of
\* the rating distribution and the sum of the per-platform counts, and the
\* counts of the platforms the filter leaves out are zero.
C32_FilteredStatsAgree ==
    Aggregated =>
        \A source_filter \in Sources :
            LET response == ApplySourceFilter(req.out, source_filter)
                stats == response.stats
                d == stats.rating_distribution
                counts == [ google |-> stats.google_reviews,
                            apple |-> stats.apple_reviews,
                            trustpilot |-> stats.trustpilot_reviews ]
            IN  /\ stats.total_reviews = Len(response.reviews)
                /\ d[1] + d[2] + d[3] + d[4] + d[5] = stats.total_reviews
                /\ counts.google + counts.apple + counts.trustpilot
                     = stats.total_reviews
                /\ \A s \in Sources \ {source_filter} : counts[s] = 0

----------------------------------------------------------------------------
(* A claim about the aggregation as the service requests it, checked under *)
(* SpecService                                                             *)

\* C36: a get_reviews request made with cached false, whatever force_refresh
\* is, makes no call of the cache service and leaves the cache_metadata and
\* reviews tables as they were.
C36_UncachedRequestLeavesCacheAlone ==
    [][ (GetStep /\ ~req'.cached) =>
          /\ ~req'.cache_checked
          /\ ~req'.cache_written
          /\ last' = last
          /\ cache_metadata' = cache_metadata
          /\ reviews' = reviews ]_vars

\* a request with cached false and force_refresh true has been answered
C36_Witness ==
    /\ req.op = "get"
    /\ ~req.cached
    /\ req.force_refresh
    /\ ~req.cache_checked
    /\ last.op # "lookup"

\* C29: a request that is not served from the cache has the aggregation
\* call the one fetcher its source filter names, or all three fetchers when
\* it has no source filter.
C29_SourceFilterRestrictsFetching ==
    [][ (GetStep /\ api_key /\ req'.outcome # "hit") =>
            req'.invoked = IF req'.source_filter = None
                           THEN Sources ELSE {req'.source_filter} ]_vars

----------------------------------------------------------------------------
(* Further claims about the Cache Store, checked under SpecCache *)

\* C33: after a store, every review of the stored response has a row of its
\* own in table reviews, also when another review of the response has the
\* same id and another source.
C33_RowsKeptApartBySourceAndId ==
    (conn /\ last.op = "store") =>
        \A r \in Range(last.response.reviews) :
            \E row \in reviews : row.id = r.id /\ row.source = r.source

\* C34: different request shapes derive different keys, and a store for one
\* shape leaves what a lookup of every other shape reads and returns as it
\* was.
C34_KeysCollisionFree ==
    [][ (conn /\ CacheReviews) =>
          /\ \A sh1, sh2 \in HoursValues \X SourceFilters :
                sh1 # sh2 => _generate_cache_key(sh1[1], sh1[2])
                               # _generate_cache_key(sh2[1], sh2[2])
          /\ \A sh \in OtherShapes(last'.cache_key) :
                get_cached_reviews(conn, cache_metadata', reviews', now', sh[1], sh[2])
                  = get_cached_reviews(conn, cache_metadata, reviews, now', sh[1], sh[2])
      ]_vars

\* C37: a store that fails at one of its statements leaves both tables as
\* they were, and a lookup of its key that follows it, the key's entry not
\* yet expired, returns the generation the key had before.
C37_FailedStoreIsRolledBack ==
    [][ /\ CacheReviewsFails =>
              (cache_metadata' = cache_metadata /\ reviews' = reviews)
        /\ ( /\ conn
             /\ last.op = "store_failed"
             /\ last'.op = "lookup"
             /\ last'.cache_key = last.cache_key
             /\ LiveAt(last.cache_key, now) )
           => ( /\ last'.out.stage = "hit"
                /\ Range(last'.out.result.reviews) = generation[last.cache_key] )
      ]_vars

\* C38: a sweep leaves what a lookup of every key with an unexpired entry
\* reads and returns as it was.
C38_SweepKeepsValidLookups ==
    [][ (conn /\ CleanupExpiredCache) =>
          \A sh \in HoursValues \X SourceFilters :
              LiveAt(_generate_cache_key(sh[1], sh[2]), now) =>
                  get_cached_reviews(conn, cache_metadata', reviews', now, sh[1], sh[2])
                    = get_cached_reviews(conn, cache_metadata, reviews, now, sh[1], sh[2])
      ]_vars

\* a sweep removed an expired entry while another key had an unexpired entry
\* and review rows for a lookup to read
C38_Witness ==
    /\ conn
    /\ last.op = "sweep"
    /\ last.expired # {}
    /\ \E sh \in HoursValues \X SourceFilters :
          /\ LiveAt(_generate_cache_key(sh[1], sh[2]), now)
          /\ SelectReviews(cache_metadata, reviews,
                           _generate_cache_key(sh[1], sh[2]), sh[2]) # {}

\* ---------------------------------------------------------------------------
\* Claims checked under SpecTwoSource
\* ---------------------------------------------------------------------------

=============================================================================
